---------------------------- MODULE Spec2Model ----------------------------
(***************************************************************************)
(* Model of src/src/utils.py (class App): the domain consolidation         *)
(* pipeline (convert_domains, remove_subdomains, convert_to_domain_list,   *)
(* chunk_list) and the reconciliation of the final list against the remote *)
(* list/policy store (run, delete).                                        *)
(*                                                                         *)
(* A Python str is a sequence of one-character strings, so that split,     *)
(* join, splitlines and the code-point order of sorted() are computed and  *)
(* not assumed.                                                            *)
(***************************************************************************)
EXTENDS Integers, Sequences, FiniteSets, TLC

VARIABLES
    \* ---- remove_subdomains applied to a set of domains
    rs_pc,            \* "input" before the call, "output" after it
    rs_domains,       \* the argument `domains`
    rs_result,        \* the returned set
    \* ---- convert_to_domain_list applied to two texts
    cd_pc,            \* "input" before the call, "output" after it
    block_content,    \* the argument `block_content`
    white_content,    \* the argument `white_content`
    final_domains,    \* the returned list
    \* ---- the remote store (namespace of this adlist) and the sources
    sources,          \* text behind each of adlist_urls and whitelist_urls
    store_lists,      \* remote lists: records [id, idx, items], named "<prefix> <idx>"
    store_policies,   \* remote policies: records [id, name, lists]
    next_id,          \* the next identifier the store hands out
    \* ---- executions of run(), one per process
    pc,               \* the remote call each execution is about to issue
    domains,          \* local `domains`
    cf_lists,         \* local `cf_lists`
    cf_policies,      \* local `cf_policies`
    todo,             \* tasks of the current asyncio.gather not yet completed
    created,          \* results of the create_list tasks completed so far
    decision,         \* branch the execution took
    err,              \* "none", "io" (a remote call failed) or "multiple"
    \* ---- history
    calls,            \* mutating remote calls issued by the current execution
    snap,             \* store contents when the current execution began
    runs,             \* executions of run() begun so far
    failed_before,    \* an earlier execution failed after a mutating call of its own
    prev_decision,    \* branch of the execution before the current one, if it completed
    \* ---- chunk_list applied to a list and a chunk size
    ch_pc,            \* "input" before the call, "output" after it
    ch_list,          \* the argument `_list`
    ch_n,             \* the argument `n`
    ch_result,        \* the slices yielded, in order
    \* ---- convert_domains applied to a line
    ln_pc,            \* "input" before the call, "output" after it
    ln_line,          \* the argument `line`
    ln_result         \* the value returned, or Raised

rs_vars == <<rs_pc, rs_domains, rs_result>>

cd_vars == <<cd_pc, block_content, white_content, final_domains>>

store_vars == <<store_lists, store_policies, next_id>>

local_vars == <<pc, domains, cf_lists, cf_policies, todo, created, decision, err>>

hist_vars == <<calls, snap, runs, failed_before, prev_decision>>

ch_vars == <<ch_pc, ch_list, ch_n, ch_result>>

ln_vars == <<ln_pc, ln_line, ln_result>>

run_vars == <<sources, store_vars, local_vars, hist_vars>>

vars == <<rs_vars, cd_vars, run_vars, ch_vars, ln_vars>>

----------------------------------------------------------------------------
(* Bounds of the model *)

\* labels per generated domain name
MaxLabels == 4
\* domains in a generated input set of remove_subdomains
MaxSetSize == 3
\* lines of a generated block text
MaxBlockLines == 3
\* lines of a generated allow text
MaxWhiteLines == 1
\* executions of run() in a row
MaxRuns == 3
\* elements of a generated argument list of chunk_list
MaxListLen == 5
\* largest generated chunk size
MaxChunkArg == 3
\* characters of a generated line of convert_domains
MaxLineLen == 4
\* generated block sources, allow sources, and lines of each
MaxBlockSources == 2
MaxAllowSources == 1
MaxSourceLines == 1

----------------------------------------------------------------------------
(* Strings *)

\* Code points of the characters the model uses (Python compares str by code point).
Ord(c) ==
    CASE c = "\t" -> 9
      [] c = "\n" -> 10
      [] c = "\r" -> 13
      [] c = " " -> 32
      [] c = "!" -> 33
      [] c = "#" -> 35
      [] c = "*" -> 42
      [] c = "-" -> 45
      [] c = "." -> 46
      [] c = "/" -> 47
      [] c = "0" -> 48
      [] c = "1" -> 49
      [] c = ":" -> 58
      [] c = "@" -> 64
      [] c = "A" -> 65
      [] c = "B" -> 66
      [] c = "^" -> 94
      [] c = "a" -> 97
      [] c = "b" -> 98
      [] c = "|" -> 124

\* str.__lt__: the first differing character decides, a proper prefix is smaller.
RECURSIVE StrLess(_, _)
StrLess(s, t) ==
    IF t = <<>> THEN FALSE
    ELSE IF s = <<>> THEN TRUE
    ELSE IF s[1] # t[1] THEN Ord(s[1]) < Ord(t[1])
    ELSE StrLess(Tail(s), Tail(t))

\* Index of the first occurrence of character c in s, 0 when absent.
Find(s, c) ==
    IF \E i \in 1..Len(s) : s[i] = c
    THEN CHOOSE i \in 1..Len(s) : s[i] = c /\ \A j \in 1..(i - 1) : s[j] # c
    ELSE 0

\* s.split(c): always at least one part, parts may be empty.
RECURSIVE Split(_, _)
Split(s, c) ==
    LET i == Find(s, c) IN
    IF i = 0 THEN <<s>>
    ELSE <<SubSeq(s, 1, i - 1)>> \o Split(SubSeq(s, i + 1, Len(s)), c)

\* c.join(parts)
RECURSIVE Join(_, _)
Join(parts, c) ==
    IF parts = <<>> THEN <<>>
    ELSE IF Len(parts) = 1 THEN parts[1]
    ELSE parts[1] \o <<c>> \o Join(Tail(parts), c)


Whitespace == {" ", "\t", "\n", "\r"}

Digits == {"0", "1"}

Alnum == {"0", "1", "a", "b", "A", "B"}

\* str.lower(), one character
LowerChar(c) == IF c = "A" THEN "a" ELSE IF c = "B" THEN "b" ELSE c

Lower(s) == [i \in 1..Len(s) |-> LowerChar(s[i])]

\* str.strip(): leading and trailing whitespace removed
RECURSIVE LStrip(_)
LStrip(s) == IF s # <<>> /\ s[1] \in Whitespace THEN LStrip(Tail(s)) ELSE s

RECURSIVE RStrip(_)
RStrip(s) ==
    IF s # <<>> /\ s[Len(s)] \in Whitespace THEN RStrip(SubSeq(s, 1, Len(s) - 1)) ELSE s

Strip(s) == RStrip(LStrip(s))

\* s.replace(c, "")
Remove(s, c) == SelectSeq(s, LAMBDA x : x # c)

\* s.startswith(p)
StartsWith(s, p) == Len(p) <= Len(s) /\ SubSeq(s, 1, Len(p)) = p

\* str.splitlines(): a line ends at "\n", "\r" or "\r\n"; the terminators are
\* dropped and a text that ends with one has no empty last line.
RECURSIVE SplitLines(_)
SplitLines(s) ==
    IF s = <<>> THEN <<>>
    ELSE LET n == Find(s, "\n")
             r == Find(s, "\r")
             i == IF n = 0 THEN r ELSE IF r = 0 THEN n ELSE IF r < n THEN r ELSE n
         IN  IF i = 0 THEN <<s>>
             ELSE LET skip == IF s[i] = "\r" /\ i < Len(s) /\ s[i + 1] = "\n"
                              THEN i + 1 ELSE i
                  IN  <<SubSeq(s, 1, i - 1)>> \o SplitLines(SubSeq(s, skip + 1, Len(s)))

\* sorted(list(S)) for a set of str: the smallest remaining element comes next
RECURSIVE Sorted(_)
Sorted(S) ==
    IF S = {} THEN <<>>
    ELSE LET m == CHOOSE x \in S : \A y \in S \ {x} : StrLess(x, y)
         IN  <<m>> \o Sorted(S \ {m})

Range(q) == {q[i] : i \in 1..Len(q)}

----------------------------------------------------------------------------
(* remove_subdomains *)

\* for i in range(1, len(parts)): higher_domain = ".".join(parts[i:])
HigherDomains(d) ==
    LET parts == Split(d, ".") IN
    {Join(SubSeq(parts, i + 1, Len(parts)), ".") : i \in 1..(Len(parts) - 1)}

\* a faulty first loop that keeps no single-label name
SingleLabel_Dropped(ds) == {}

\* first loop: the single-label names go to top_level_domains
SingleLabel(ds) == {d \in ds : Len(Split(d, ".")) = 1}

\* first loop: every other name goes to subdomains
MultiLabel(ds) == {d \in ds : Len(Split(d, ".")) # 1}

\* second loop: is_subdomain, tested against the set `subdomains` only
is_subdomain(d, subdomains) == HigherDomains(d) \cap subdomains # {}

remove_subdomains(ds) ==
    LET top_level_domains == SingleLabel(ds)
        subdomains == MultiLabel(ds)
    IN  top_level_domains \cup {s \in subdomains : ~is_subdomain(s, subdomains)}

----------------------------------------------------------------------------
(* convert_domains *)

\* Python's None
None == <<"None">>

\* chars of a leading address token of a hosts-file line
AddrChars == Digits \cup {".", ":"}

\* length of the longest prefix of s made of characters of cs
RECURSIVE SpanLen(_, _)
SpanLen(s, cs) == IF s # <<>> /\ s[1] \in cs THEN 1 + SpanLen(Tail(s), cs) ELSE 0

\* replace_pattern.sub("", linex, count=1): one leading decoration is removed,
\* an adblock "||" or an address token followed by whitespace.
replace_pattern_sub(s) ==
    IF StartsWith(s, <<"|", "|">>) THEN SubSeq(s, 3, Len(s))
    ELSE LET a == SpanLen(s, AddrChars)
             w == SpanLen(SubSeq(s, a + 1, Len(s)), Whitespace)
         IN  IF a > 0 /\ w > 0 THEN SubSeq(s, a + w + 1, Len(s)) ELSE s

\* domain.encode("idna") raises on an empty label that is not the last one
idna_raises(s) ==
    LET parts == Split(s, ".") IN
    s # <<>> /\ \E i \in 1..Len(parts) : parts[i] = <<>> /\ (i < Len(parts) \/ Len(parts) = 1)

\* one label of the domain grammar: alphanumerics and hyphens, no hyphen at either end
LabelOk(l) ==
    /\ l # <<>>
    /\ \A i \in 1..Len(l) : l[i] \in Alnum \cup {"-"}
    /\ l[1] # "-"
    /\ l[Len(l)] # "-"

\* domain_pattern.match(domain)
domain_pattern_match(s) ==
    LET parts == Split(s, ".") IN \A i \in 1..Len(parts) : LabelOk(parts[i])

\* ip_pattern.match(domain): a dotted IPv4 literal
ip_pattern_match(s) ==
    LET parts == Split(s, ".") IN
    /\ Len(parts) = 4
    /\ \A i \in 1..4 :
          /\ Len(parts[i]) \in 1..3
          /\ \A j \in 1..Len(parts[i]) : parts[i][j] \in Digits

\* an exception that leaves the function
Raised == <<"Raised">>

\* lines 145-147: the body of the try; encode raises or the patterns decide
try_body(domain) ==
    IF idna_raises(domain) THEN Raised
    ELSE IF domain_pattern_match(domain) /\ ~ip_pattern_match(domain)
         THEN domain
         ELSE None

\* a faulty handler that lets the exception through
except_pass_Reraise(r) == r

\* lines 148-150: except Exception: pass, then return None
except_pass(r) == IF r = Raised THEN None ELSE r

convert_domains(line) ==
    IF line = <<>> \/ line[1] \in {"#", "!", "/"} THEN None
    ELSE LET linex == Remove(Split(Split(Strip(Lower(line)), "#")[1], "^")[1], "\r")
             domain == replace_pattern_sub(linex)
         IN  except_pass(try_body(domain))

----------------------------------------------------------------------------
(* convert_to_domain_list *)

\* the loop over content.splitlines(): `if domain: set.add(domain)`
DomainsOf(content) ==
    LET lines == SplitLines(content) IN
    {convert_domains(lines[i]) : i \in 1..Len(lines)} \ {None, <<>>}

\* a faulty version that never subtracts the allow set
convert_to_domain_list_NoAllow(block, white) ==
    Sorted(remove_subdomains(DomainsOf(block)))

convert_to_domain_list(block, white) ==
    LET white_domains == DomainsOf(white)
        block_domains == DomainsOf(block)
        filtered_domains == remove_subdomains(block_domains)
    IN  Sorted(filtered_domains \ white_domains)

----------------------------------------------------------------------------
(* Generated inputs *)

LabelPool == {<<"a">>, <<"b", "a">>}

\* every name of 1..n labels drawn from LabelPool
NamesOfLabels(n) == {Join(p, ".") : p \in [1..n -> LabelPool]}

DomainPool == UNION {NamesOfLabels(n) : n \in 1..MaxLabels}

\* lines of generated list files: plain names, a name below another, a name
\* with a hyphen, a hosts-file line, an adblock rule, a comment, an upper-case name
LinePool ==
    { <<"a">>,
      <<"a", ".", "a">>,
      <<"a", ".", "a", ".", "a">>,
      <<"a", "-", "a">>,
      <<"b", "a", ".", "a">>,
      <<"0", ".", "0", ".", "0", ".", "0", " ", "b", ".", "a", ".", "a">>,
      <<"|", "|", "B", ".", "a", "^">>,
      <<"#", "a">> }

----------------------------------------------------------------------------
(* Specification SpecReduce: remove_subdomains on every generated set *)

rs_Idle == rs_pc = "off" /\ rs_domains = {} /\ rs_result = {}

ch_Idle == ch_pc = "off" /\ ch_list = <<>> /\ ch_n = 1 /\ ch_result = <<>>

ln_Idle == ln_pc = "off" /\ ln_line = <<>> /\ ln_result = <<>>

cd_Idle ==
    cd_pc = "off" /\ block_content = <<>> /\ white_content = <<>> /\ final_domains = <<>>

Procs == {1, 2}

run_Idle ==
    /\ sources = [adlist |-> <<>>, whitelist |-> <<>>]
    /\ store_lists = {}
    /\ store_policies = {}
    /\ next_id = 1
    /\ pc = [p \in Procs |-> "off"]
    /\ domains = [p \in Procs |-> <<>>]
    /\ cf_lists = [p \in Procs |-> <<>>]
    /\ cf_policies = [p \in Procs |-> <<>>]
    /\ todo = [p \in Procs |-> {}]
    /\ created = [p \in Procs |-> {}]
    /\ decision = [p \in Procs |-> "none"]
    /\ err = [p \in Procs |-> "none"]
    /\ calls = [p \in Procs |-> <<>>]
    /\ snap = [p \in Procs |-> [lists |-> {}, policies |-> {}]]
    /\ runs = 0
    /\ failed_before = FALSE
    /\ prev_decision = "none"

InitReduce ==
    /\ rs_pc = "input"
    /\ rs_domains = {}
    /\ rs_result = {}
    /\ cd_Idle
    /\ run_Idle
    /\ ch_Idle
    /\ ln_Idle

\* the caller puts one more name into the set it will pass
AddDomain ==
    /\ rs_pc = "input"
    /\ Cardinality(rs_domains) < MaxSetSize
    /\ \E d \in DomainPool \ rs_domains : rs_domains' = rs_domains \cup {d}
    /\ UNCHANGED <<rs_pc, rs_result, cd_vars, run_vars, ch_vars, ln_vars>>

RemoveSubdomains ==
    /\ rs_pc = "input"
    /\ rs_result' = remove_subdomains(rs_domains)
    /\ rs_pc' = "output"
    /\ UNCHANGED <<rs_domains, cd_vars, run_vars, ch_vars, ln_vars>>

NextReduce == AddDomain \/ RemoveSubdomains

SpecReduce == InitReduce /\ [][NextReduce]_vars

----------------------------------------------------------------------------
(* Specification SpecLine: convert_domains on every generated line *)

\* characters of a generated line: a letter, the label separator, the three
\* comment markers, a blank and a hyphen
LineChars == {"a", ".", "#", "!", "/", " ", "-"}

InitLine ==
    /\ ln_pc = "input"
    /\ ln_line = <<>>
    /\ ln_result = <<>>
    /\ rs_Idle
    /\ cd_Idle
    /\ run_Idle
    /\ ch_Idle

\* the line gets one more character
AppendChar ==
    /\ ln_pc = "input"
    /\ Len(ln_line) < MaxLineLen
    /\ \E ch \in LineChars : ln_line' = Append(ln_line, ch)
    /\ UNCHANGED <<ln_pc, ln_result, rs_vars, cd_vars, run_vars, ch_vars>>

ConvertDomains ==
    /\ ln_pc = "input"
    /\ ln_result' = convert_domains(ln_line)
    /\ ln_pc' = "output"
    /\ UNCHANGED <<ln_line, rs_vars, cd_vars, run_vars, ch_vars>>

NextLine == AppendChar \/ ConvertDomains

SpecLine == InitLine /\ [][NextLine]_vars

----------------------------------------------------------------------------
(* Specification SpecConvert: convert_to_domain_list on every generated pair *)
(* of texts                                                                  *)

InitConvert ==
    /\ cd_pc = "input"
    /\ block_content = <<>>
    /\ white_content = <<>>
    /\ final_domains = <<>>
    /\ rs_Idle
    /\ run_Idle
    /\ ch_Idle
    /\ ln_Idle

\* number of line terminators of a text
CountLF(s) == Len(SelectSeq(s, LAMBDA c : c = "\n"))

\* the block source gets one more line
AppendBlockLine ==
    /\ cd_pc = "input"
    /\ CountLF(block_content) < MaxBlockLines
    /\ \E l \in LinePool : block_content' = block_content \o l \o <<"\n">>
    /\ UNCHANGED <<cd_pc, white_content, final_domains, rs_vars, run_vars, ch_vars, ln_vars>>

\* the allow source gets one more line
AppendWhiteLine ==
    /\ cd_pc = "input"
    /\ CountLF(white_content) < MaxWhiteLines
    /\ \E l \in LinePool : white_content' = white_content \o l \o <<"\n">>
    /\ UNCHANGED <<cd_pc, block_content, final_domains, rs_vars, run_vars, ch_vars, ln_vars>>

ConvertToDomainList ==
    /\ cd_pc = "input"
    /\ final_domains' = convert_to_domain_list(block_content, white_content)
    /\ cd_pc' = "output"
    /\ UNCHANGED <<block_content, white_content, rs_vars, run_vars, ch_vars, ln_vars>>

NextConvert == AppendBlockLine \/ AppendWhiteLine \/ ConvertToDomainList

SpecConvert == InitConvert /\ [][NextConvert]_vars

----------------------------------------------------------------------------
(* chunk_list *)

\* the limit of line 34 (300000 in the code), scaled to the generated lists
DomainLimit == 3

\* the chunk size of line 73 (1000 in the code), scaled likewise
ChunkSize == 2

Min(a, b) == IF a < b THEN a ELSE b

\* a faulty version that yields only the full slices
RECURSIVE chunk_from_FullOnly(_, _, _)
chunk_from_FullOnly(l, i, n) ==
    IF i + n > Len(l) THEN <<>>
    ELSE <<SubSeq(l, i + 1, i + n)>> \o chunk_from_FullOnly(l, i + n, n)

\* for i in range(0, len(_list), n): yield _list[i : i + n]
RECURSIVE chunk_from(_, _, _)
chunk_from(l, i, n) ==
    IF i >= Len(l) THEN <<>>
    ELSE <<SubSeq(l, i + 1, Min(i + n, Len(l)))>> \o chunk_from(l, i + n, n)

chunk_list(l, n) == chunk_from(l, 0, n)

----------------------------------------------------------------------------
(* Specification SpecChunk: chunk_list on every generated list and chunk size *)

\* elements of a generated list
ElemPool == {<<"a">>, <<"b">>}

InitChunk ==
    /\ ch_pc = "input"
    /\ ch_list = <<>>
    /\ ch_n \in 1..MaxChunkArg
    /\ ch_result = <<>>
    /\ rs_Idle
    /\ cd_Idle
    /\ run_Idle
    /\ ln_Idle

\* the caller appends one more element to the list it will pass
AppendElem ==
    /\ ch_pc = "input"
    /\ Len(ch_list) < MaxListLen
    /\ \E x \in ElemPool : ch_list' = Append(ch_list, x)
    /\ UNCHANGED <<ch_pc, ch_n, ch_result, rs_vars, cd_vars, run_vars, ln_vars>>

\* list(chunk_list(_list, n)): the generator is run to its end
ChunkList ==
    /\ ch_pc = "input"
    /\ ch_result' = chunk_list(ch_list, ch_n)
    /\ ch_pc' = "output"
    /\ UNCHANGED <<ch_list, ch_n, rs_vars, cd_vars, run_vars, ln_vars>>

NextChunk == AppendElem \/ ChunkList

SpecChunk == InitChunk /\ [][NextChunk]_vars

----------------------------------------------------------------------------
(* The remote list/policy store, as the engine sees it through cloudflare.* *)

\* f"{self.name_prefix} Block Ads"
PolicyName == "Block Ads"

RECURSIVE SumCounts(_)
SumCounts(q) == IF q = <<>> THEN 0 ELSE q[1].count + SumCounts(Tail(q))

\* the records of S as a list, by ascending identifier
RECURSIVE SeqById(_)
SeqById(S) ==
    IF S = {} THEN <<>>
    ELSE LET m == CHOOSE x \in S : \A y \in S : x.id <= y.id
         IN  <<m>> \o SeqById(S \ {m})

\* the results of the create_list tasks in task order
RECURSIVE SeqByIdx(_)
SeqByIdx(S) ==
    IF S = {} THEN <<>>
    ELSE LET m == CHOOSE x \in S : \A y \in S : x.idx <= y.idx
         IN  <<m>> \o SeqByIdx(S \ {m})

\* get_lists(name_prefix): [{id, name, count}] of the namespace
get_lists ==
    SeqById({[id |-> l.id, idx |-> l.idx, count |-> Len(l.items)] : l \in store_lists})

\* get_firewall_policies(name_prefix): the policies of the namespace
get_firewall_policies == SeqById(store_policies)

\* [l["id"] for l in cf_lists]
Ids(q) == {q[i].id : i \in 1..Len(q)}

\* the store after create_list(name, chunk)
create_list(idx, chunk) ==
    store_lists \cup {[id |-> next_id, idx |-> idx, items |-> chunk]}

\* the store after delete_list(name, id)
delete_list(id) == {l \in store_lists : l.id # id}

\* the store after create_gateway_policy(name, list_ids)
create_gateway_policy(name, ids) ==
    store_policies \cup {[id |-> next_id, name |-> name, lists |-> ids]}

\* the store after update_gateway_policy(name, policy_id, list_ids)
update_gateway_policy(name, id, ids) ==
    {q \in store_policies : q.id # id} \cup {[id |-> id, name |-> name, lists |-> ids]}

\* the store after delete_gateway_policy(policy_prefix)
delete_gateway_policy(name) == {q \in store_policies : q.name # name}

----------------------------------------------------------------------------
(* run *)

\* "".join(texts)
RECURSIVE Concat(_)
Concat(q) == IF q = <<>> THEN <<>> ELSE q[1] \o Concat(Tail(q))

\* results[:len(self.adlist_urls)] and results[len(self.adlist_urls):], joined
BlockContent(src) ==
    LET results == src.adlist \o src.whitelist
    IN  Concat(SubSeq(results, 1, Len(src.adlist)))

WhiteContent(src) ==
    LET results == src.adlist \o src.whitelist
    IN  Concat(SubSeq(results, Len(src.adlist) + 1, Len(results)))

\* a faulty guard that also turns away a list of exactly the limit
TooLarge_AtLimit(d) == Len(d) >= DomainLimit

\* if len(domains) > 300000
TooLarge(d) == Len(d) > DomainLimit

\* a faulty comparison that never sees a size match
SizeMatch_Never(d, lists) == FALSE

\* if len(domains) == sum([l["count"] for l in cf_lists])
SizeMatch(d, lists) == Len(d) = SumCounts(lists)

\* a faulty test that takes every namespace for one without a policy
NoPolicy_Always(policies) == TRUE

\* if len(cf_policies) == 0
NoPolicy(policies) == Len(policies) = 0

\* a faulty loop that leaves the last fetched list out
ListsToDelete_SkipLast(lists) == {lists[i].id : i \in 1..(Len(lists) - 1)}

\* for l in cf_lists: delete_list_tasks.append(...)
ListsToDelete(lists) == {lists[i].id : i \in 1..Len(lists)}

\* the chunks run() creates lists for, in order
Chunks(d) == chunk_list(d, ChunkSize)

Terminal == {"done", "aborted", "error"}

\* pcs at which a remote call is about to be issued
CallPcs ==
    {"get_lists", "sm_get_policies", "sm_create_policy", "del_policy", "del_lists",
     "create_lists", "rb_get_policies", "rb_create_policy", "rb_update_policy"}

Set(f, p, v) == [f EXCEPT ![p] = v]

\* a faulty guard that lets an empty list through
IsEmpty_Never(d) == FALSE

\* line 29: if len(domains) == 0
IsEmpty(d) == Len(d) = 0

\* a faulty gather that returns when its first task completes
GatherDone_FirstCompleted(remaining) == TRUE

\* await asyncio.gather(*tasks) returns when no task remains
GatherDone(remaining) == remaining = {}

\* a faulty handler that swallows the exception and issues the call again
AfterFailure_Retry(at) == at

\* run() and delete() have no try/except: an exception raised by an awaited
\* call leaves the coroutine
AfterFailure(at) == "error"

\* lines 17-36: a new execution downloads the sources and computes the list
Download(p) ==
    /\ pc[p] \in {"idle"} \cup Terminal
    /\ runs < MaxRuns
    /\ runs' = runs + 1
    /\ failed_before' =
          (failed_before \/ (pc[p] = "error" /\ err[p] = "io" /\ calls[p] # <<>>))
    /\ prev_decision' = (IF pc[p] = "done" THEN decision[p] ELSE "none")
    /\ snap' = Set(snap, p, [lists |-> store_lists, policies |-> store_policies])
    /\ calls' = Set(calls, p, <<>>)
    /\ LET d == convert_to_domain_list(BlockContent(sources), WhiteContent(sources))
       IN  /\ domains' = Set(domains, p, d)
           /\ IF IsEmpty(d)
              THEN pc' = Set(pc, p, "aborted") /\ decision' = Set(decision, p, "AbortEmpty")
              ELSE IF TooLarge(d)
              THEN pc' = Set(pc, p, "aborted") /\ decision' = Set(decision, p, "AbortTooLarge")
              ELSE pc' = Set(pc, p, "get_lists") /\ decision' = Set(decision, p, "none")
    /\ cf_lists' = Set(cf_lists, p, <<>>)
    /\ cf_policies' = Set(cf_policies, p, <<>>)
    /\ todo' = Set(todo, p, {})
    /\ created' = Set(created, p, {})
    /\ err' = Set(err, p, "none")
    /\ UNCHANGED <<sources, store_vars, rs_vars, cd_vars, ch_vars, ln_vars>>

\* session.get raises: the execution ends before anything is computed
DownloadFails(p) ==
    /\ pc[p] \in {"idle"} \cup Terminal
    /\ runs < MaxRuns
    /\ runs' = runs + 1
    /\ failed_before' =
          (failed_before \/ (pc[p] = "error" /\ err[p] = "io" /\ calls[p] # <<>>))
    /\ prev_decision' = (IF pc[p] = "done" THEN decision[p] ELSE "none")
    /\ snap' = Set(snap, p, [lists |-> store_lists, policies |-> store_policies])
    /\ calls' = Set(calls, p, <<>>)
    /\ domains' = Set(domains, p, <<>>)
    /\ cf_lists' = Set(cf_lists, p, <<>>)
    /\ cf_policies' = Set(cf_policies, p, <<>>)
    /\ todo' = Set(todo, p, {})
    /\ created' = Set(created, p, {})
    /\ decision' = Set(decision, p, "none")
    /\ pc' = Set(pc, p, "error")
    /\ err' = Set(err, p, "io")
    /\ UNCHANGED <<sources, store_vars, rs_vars, cd_vars, ch_vars, ln_vars>>

\* lines 39-44: cf_lists = await cloudflare.get_lists(...), then the size comparison
GetLists(p) ==
    /\ pc[p] = "get_lists"
    /\ cf_lists' = Set(cf_lists, p, get_lists)
    /\ pc' = Set(pc, p, IF SizeMatch(domains[p], get_lists)
                        THEN "sm_get_policies" ELSE "del_policy")
    /\ UNCHANGED <<domains, cf_policies, todo, created, decision, err>>
    /\ UNCHANGED <<sources, store_vars, hist_vars, rs_vars, cd_vars, ch_vars, ln_vars>>

\* lines 46-55: cf_policies = await cloudflare.get_firewall_policies(...)
GetPoliciesSizeMatch(p) ==
    /\ pc[p] = "sm_get_policies"
    /\ cf_policies' = Set(cf_policies, p, get_firewall_policies)
    /\ IF NoPolicy(get_firewall_policies)
       THEN pc' = Set(pc, p, "sm_create_policy") /\ UNCHANGED decision
       ELSE pc' = Set(pc, p, "done") /\ decision' = Set(decision, p, "Skip")
    /\ UNCHANGED <<domains, cf_lists, todo, created, err>>
    /\ UNCHANGED <<sources, store_vars, hist_vars, rs_vars, cd_vars, ch_vars, ln_vars>>

\* lines 50-52, 57: create_gateway_policy referencing the fetched lists
CreatePolicyOnly(p) ==
    /\ pc[p] = "sm_create_policy"
    /\ store_policies' = create_gateway_policy(PolicyName, Ids(cf_lists[p]))
    /\ next_id' = next_id + 1
    /\ calls' = Set(calls, p, Append(calls[p],
          [op |-> "create_policy", name |-> PolicyName, lists |-> Ids(cf_lists[p])]))
    /\ pc' = Set(pc, p, "done")
    /\ decision' = Set(decision, p, "CreatePolicyOnly")
    /\ UNCHANGED <<domains, cf_lists, cf_policies, todo, created, err>>
    /\ UNCHANGED <<sources, store_lists, snap, runs, failed_before, prev_decision, rs_vars, cd_vars, ch_vars, ln_vars>>

\* the gather of create_list tasks, one per chunk
CreateTasks(p) == 1..Len(Chunks(domains[p]))

\* lines 60-68: delete_gateway_policy, then the delete_list tasks are built
DeletePolicy(p) ==
    /\ pc[p] = "del_policy"
    /\ store_policies' = delete_gateway_policy(PolicyName)
    /\ calls' = Set(calls, p, Append(calls[p], [op |-> "delete_policy", name |-> PolicyName]))
    /\ IF ListsToDelete(cf_lists[p]) = {}
       THEN pc' = Set(pc, p, "create_lists") /\ todo' = Set(todo, p, CreateTasks(p))
       ELSE pc' = Set(pc, p, "del_lists") /\ todo' = Set(todo, p, ListsToDelete(cf_lists[p]))
    /\ UNCHANGED <<domains, cf_lists, cf_policies, created, decision, err>>
    /\ UNCHANGED <<sources, store_lists, next_id, snap, runs, failed_before, prev_decision, rs_vars, cd_vars, ch_vars, ln_vars>>

\* line 69: one delete_list task of the gather completes
DeleteList(p, id) ==
    /\ pc[p] = "del_lists"
    /\ id \in todo[p]
    /\ \E l \in store_lists : l.id = id
    /\ store_lists' = delete_list(id)
    /\ calls' = Set(calls, p, Append(calls[p], [op |-> "delete_list", id |-> id]))
    /\ IF GatherDone(todo[p] \ {id})
       THEN pc' = Set(pc, p, "create_lists") /\ todo' = Set(todo, p, CreateTasks(p))
       ELSE pc' = Set(pc, p, "del_lists") /\ todo' = Set(todo, p, todo[p] \ {id})
    /\ UNCHANGED <<domains, cf_lists, cf_policies, created, decision, err>>
    /\ UNCHANGED <<sources, store_policies, next_id, snap, runs, failed_before, prev_decision, rs_vars, cd_vars, ch_vars, ln_vars>>

\* lines 72-78: one create_list task of the gather completes; after the last,
\* cf_lists is the list of results in task order
CreateList(p, i) ==
    /\ pc[p] = "create_lists"
    /\ i \in todo[p]
    /\ LET chunk == Chunks(domains[p])[i]
           res == [id |-> next_id, idx |-> i, count |-> Len(chunk)]
       IN  /\ store_lists' = create_list(i, chunk)
           /\ next_id' = next_id + 1
           /\ calls' = Set(calls, p, Append(calls[p],
                 [op |-> "create_list", idx |-> i, items |-> chunk]))
           /\ IF GatherDone(todo[p] \ {i})
              THEN /\ pc' = Set(pc, p, "rb_get_policies")
                   /\ cf_lists' = Set(cf_lists, p,
                         SeqByIdx(created[p] \cup {res}))
                   /\ created' = Set(created, p, {})
              ELSE /\ pc' = Set(pc, p, "create_lists")
                   /\ created' = Set(created, p, created[p] \cup {res})
                   /\ UNCHANGED cf_lists
           /\ todo' = Set(todo, p, todo[p] \ {i})
    /\ UNCHANGED <<domains, cf_policies, decision, err>>
    /\ UNCHANGED <<sources, store_policies, snap, runs, failed_before, prev_decision, rs_vars, cd_vars, ch_vars, ln_vars>>

\* lines 80-98: the policies are fetched again and the branch is chosen
GetPoliciesRebuild(p) ==
    /\ pc[p] = "rb_get_policies"
    /\ cf_policies' = Set(cf_policies, p, get_firewall_policies)
    /\ IF NoPolicy(get_firewall_policies)
       THEN pc' = Set(pc, p, "rb_create_policy") /\ UNCHANGED err
       ELSE IF Len(get_firewall_policies) # 1
       THEN pc' = Set(pc, p, "error") /\ err' = Set(err, p, "multiple")
       ELSE pc' = Set(pc, p, "rb_update_policy") /\ UNCHANGED err
    /\ UNCHANGED <<domains, cf_lists, todo, created, decision>>
    /\ UNCHANGED <<sources, store_vars, hist_vars, rs_vars, cd_vars, ch_vars, ln_vars>>

\* lines 86-88: create_gateway_policy referencing the created lists
CreatePolicyRebuild(p) ==
    /\ pc[p] = "rb_create_policy"
    /\ store_policies' = create_gateway_policy(PolicyName, Ids(cf_lists[p]))
    /\ next_id' = next_id + 1
    /\ calls' = Set(calls, p, Append(calls[p],
          [op |-> "create_policy", name |-> PolicyName, lists |-> Ids(cf_lists[p])]))
    /\ pc' = Set(pc, p, "done")
    /\ decision' = Set(decision, p, "Rebuild")
    /\ UNCHANGED <<domains, cf_lists, cf_policies, todo, created, err>>
    /\ UNCHANGED <<sources, store_lists, snap, runs, failed_before, prev_decision, rs_vars, cd_vars, ch_vars, ln_vars>>

\* lines 94-98: update_gateway_policy of the one policy found
UpdatePolicy(p) ==
    /\ pc[p] = "rb_update_policy"
    /\ \E q \in store_policies : q.id = cf_policies[p][1].id
    /\ store_policies' =
          update_gateway_policy(PolicyName, cf_policies[p][1].id, Ids(cf_lists[p]))
    /\ calls' = Set(calls, p, Append(calls[p],
          [op |-> "update_policy", id |-> cf_policies[p][1].id,
           name |-> PolicyName, lists |-> Ids(cf_lists[p])]))
    /\ pc' = Set(pc, p, "done")
    /\ decision' = Set(decision, p, "Rebuild")
    /\ UNCHANGED <<domains, cf_lists, cf_policies, todo, created, err>>
    /\ UNCHANGED <<sources, store_lists, next_id, snap, runs, failed_before, prev_decision, rs_vars, cd_vars, ch_vars, ln_vars>>

\* the remote call the execution is waiting for raises: run() propagates it
CallFails(p) ==
    /\ pc[p] \in CallPcs
    /\ pc' = Set(pc, p, AfterFailure(pc[p]))
    /\ err' = Set(err, p, "io")
    /\ UNCHANGED <<domains, cf_lists, cf_policies, todo, created, decision>>
    /\ UNCHANGED <<sources, store_vars, hist_vars, rs_vars, cd_vars, ch_vars, ln_vars>>

\* delete_list or update_gateway_policy of something another execution has
\* removed: the remote answers with an error
TargetGone(p) ==
    /\ \/ pc[p] = "del_lists" /\ \E id \in todo[p] : \A l \in store_lists : l.id # id
       \/ pc[p] = "rb_update_policy" /\ \A q \in store_policies : q.id # cf_policies[p][1].id
    /\ CallFails(p)

Step(p) ==
    \/ Download(p)
    \/ DownloadFails(p)
    \/ GetLists(p)
    \/ GetPoliciesSizeMatch(p)
    \/ CreatePolicyOnly(p)
    \/ DeletePolicy(p)
    \/ \E id \in todo[p] : DeleteList(p, id)
    \/ \E i \in todo[p] : CreateList(p, i)
    \/ GetPoliciesRebuild(p)
    \/ CreatePolicyRebuild(p)
    \/ UpdatePolicy(p)
    \/ CallFails(p)

----------------------------------------------------------------------------
(* delete *)

\* pcs of delete() at which a remote call is about to be issued
DeleteCallPcs == {"dl_del_policy", "dl_get_lists", "dl_del_lists"}

\* line 183: delete() is called
BeginDelete(p) ==
    /\ pc[p] \in {"idle"} \cup Terminal
    /\ runs < MaxRuns
    /\ runs' = runs + 1
    /\ prev_decision' = "none"
    /\ snap' = Set(snap, p, [lists |-> store_lists, policies |-> store_policies])
    /\ calls' = Set(calls, p, <<>>)
    /\ pc' = Set(pc, p, "dl_del_policy")
    /\ domains' = Set(domains, p, <<>>)
    /\ cf_lists' = Set(cf_lists, p, <<>>)
    /\ cf_policies' = Set(cf_policies, p, <<>>)
    /\ todo' = Set(todo, p, {})
    /\ created' = Set(created, p, {})
    /\ decision' = Set(decision, p, "none")
    /\ err' = Set(err, p, "none")
    /\ UNCHANGED <<sources, store_vars, failed_before, rs_vars, cd_vars, ch_vars, ln_vars>>

\* lines 185-187: await cloudflare.delete_gateway_policy(policy_prefix)
DelDeletePolicy(p) ==
    /\ pc[p] = "dl_del_policy"
    /\ store_policies' = delete_gateway_policy(PolicyName)
    /\ calls' = Set(calls, p, Append(calls[p], [op |-> "delete_policy", name |-> PolicyName]))
    /\ pc' = Set(pc, p, "dl_get_lists")
    /\ UNCHANGED <<domains, cf_lists, cf_policies, todo, created, decision, err>>
    /\ UNCHANGED <<sources, store_lists, next_id, snap, runs, failed_before, prev_decision, rs_vars, cd_vars, ch_vars, ln_vars>>

\* lines 190-195: cf_lists = await cloudflare.get_lists(prefix); the gather of
\* delete_list tasks is started, and is over at once when there is no list
DelGetLists(p) ==
    /\ pc[p] = "dl_get_lists"
    /\ cf_lists' = Set(cf_lists, p, get_lists)
    /\ todo' = Set(todo, p, ListsToDelete(get_lists))
    /\ pc' = Set(pc, p, IF GatherDone(ListsToDelete(get_lists)) THEN "done" ELSE "dl_del_lists")
    /\ UNCHANGED <<domains, cf_policies, created, decision, err>>
    /\ UNCHANGED <<sources, store_vars, hist_vars, rs_vars, cd_vars, ch_vars, ln_vars>>

\* lines 191-195: one delete_list task of the gather completes
DelDeleteList(p, id) ==
    /\ pc[p] = "dl_del_lists"
    /\ id \in todo[p]
    /\ \E l \in store_lists : l.id = id
    /\ store_lists' = delete_list(id)
    /\ calls' = Set(calls, p, Append(calls[p], [op |-> "delete_list", id |-> id]))
    /\ pc' = Set(pc, p, IF GatherDone(todo[p] \ {id}) THEN "done" ELSE "dl_del_lists")
    /\ todo' = Set(todo, p, todo[p] \ {id})
    /\ UNCHANGED <<domains, cf_lists, cf_policies, created, decision, err>>
    /\ UNCHANGED <<sources, store_policies, next_id, snap, runs, failed_before, prev_decision, rs_vars, cd_vars, ch_vars, ln_vars>>

\* the remote call delete() is waiting for raises: delete() propagates it
DelCallFails(p) ==
    /\ pc[p] \in DeleteCallPcs
    /\ pc' = Set(pc, p, AfterFailure(pc[p]))
    /\ err' = Set(err, p, "io")
    /\ UNCHANGED <<domains, cf_lists, cf_policies, todo, created, decision>>
    /\ UNCHANGED <<sources, store_vars, hist_vars, rs_vars, cd_vars, ch_vars, ln_vars>>

DeleteStep(p) ==
    \/ BeginDelete(p)
    \/ DelDeletePolicy(p)
    \/ DelGetLists(p)
    \/ \E id \in todo[p] : DelDeleteList(p, id)
    \/ DelCallFails(p)

----------------------------------------------------------------------------
(* Sources and remote states the executions start from *)

Text(lines) == Concat([i \in 1..Len(lines) |-> lines[i] \o <<"\n">>])

D_aa == <<"a", ".", "a">>
D_aaa == <<"a", ".", "a", ".", "a">>
D_a_a == <<"a", "-", "a">>
D_baa == <<"b", "a", ".", "a">>
D_ba == <<"b", ".", "a">>
D_bb == <<"b", ".", "b">>
D_b_b == <<"b", "-", "b">>
D_bab == <<"b", "a", ".", "b">>

\* two block sources and one allow source; the final list has 0, 1, 2, 3, 4 domains
SourcePool ==
    { [adlist |-> <<Text(<< <<"#", "a">> >>), <<>>>>, whitelist |-> << <<>> >>],
      [adlist |-> <<Text(<<D_aa, D_aaa>>), Text(<<D_a_a>>)>>, whitelist |-> <<Text(<<D_a_a>>)>>],
      [adlist |-> <<Text(<<D_aa>>), Text(<<D_baa>>)>>, whitelist |-> << <<>> >>],
      [adlist |-> <<Text(<<D_aa, D_ba>>), Text(<<D_baa>>)>>, whitelist |-> << <<>> >>],
      [adlist |-> <<Text(<<D_aa, D_ba>>), Text(<<D_baa, D_a_a>>)>>, whitelist |-> << <<>> >>] }

\* lists found in the namespace: none of their items is in any final list
ListPool ==
    { [id |-> 1, idx |-> 1, items |-> <<D_bb>>],
      [id |-> 2, idx |-> 2, items |-> <<D_b_b, D_bab>>] }

\* policies found in the namespace, named as run() names them or otherwise
PolicyPool ==
    { [id |-> 3, name |-> PolicyName, lists |-> {1}],
      [id |-> 4, name |-> PolicyName, lists |-> {2}],
      [id |-> 5, name |-> "Other", lists |-> {1, 2}],
      [id |-> 6, name |-> "Other", lists |-> {}] }

FirstFreeId == 7

InitStore ==
    /\ store_lists \in SUBSET ListPool
    /\ store_policies \in
          {{}, {[id |-> 3, name |-> PolicyName, lists |-> {1}]},
           {[id |-> 5, name |-> "Other", lists |-> {1, 2}]}}
          \cup {S \in SUBSET PolicyPool : Cardinality(S) = 2}
    /\ next_id = FirstFreeId

InitRun ==
    /\ sources \in SourcePool
    /\ InitStore
    /\ pc = [p \in Procs |-> "idle"]
    /\ domains = [p \in Procs |-> <<>>]
    /\ cf_lists = [p \in Procs |-> <<>>]
    /\ cf_policies = [p \in Procs |-> <<>>]
    /\ todo = [p \in Procs |-> {}]
    /\ created = [p \in Procs |-> {}]
    /\ decision = [p \in Procs |-> "none"]
    /\ err = [p \in Procs |-> "none"]
    /\ calls = [p \in Procs |-> <<>>]
    /\ snap = [p \in Procs |-> [lists |-> {}, policies |-> {}]]
    /\ runs = 0
    /\ failed_before = FALSE
    /\ prev_decision = "none"

----------------------------------------------------------------------------
(* Specification Spec: executions of run(), one after the other, the engine *)
(* being the only writer of the namespace                                   *)

Init == InitRun /\ rs_Idle /\ cd_Idle /\ ch_Idle /\ ln_Idle

Next == Step(1)

Spec == Init /\ [][Next]_vars

\* Specification SpecConc: two executions of run() on the same namespace, their
\* steps interleaved at the remote calls; each process executes run() once and
\* every call it issues succeeds, unless its target is gone
ConcStep(p) ==
    \/ pc[p] = "idle" /\ Download(p)
    \/ GetLists(p)
    \/ GetPoliciesSizeMatch(p)
    \/ CreatePolicyOnly(p)
    \/ DeletePolicy(p)
    \/ \E id \in todo[p] : DeleteList(p, id)
    \/ \E i \in todo[p] : CreateList(p, i)
    \/ GetPoliciesRebuild(p)
    \/ CreatePolicyRebuild(p)
    \/ UpdatePolicy(p)
    \/ TargetGone(p)

NextConc == \E p \in Procs : ConcStep(p)

SpecConc == Init /\ [][NextConc]_vars

\* Specification SpecDelete: delete() executed from every generated store
NextDelete == DeleteStep(1)

SpecDelete == Init /\ [][NextDelete]_vars

----------------------------------------------------------------------------
(* Specification SpecJoin: the downloaded texts are joined and converted, *)
(* for every generated list of sources                                    *)

\* lines of a generated source
JoinLinePool == {<<"a", ".", "a">>, <<"b", ".", "a">>}

InitJoin ==
    /\ cd_pc = "sources"
    /\ block_content = <<>>
    /\ white_content = <<>>
    /\ final_domains = <<>>
    /\ run_Idle
    /\ rs_Idle
    /\ ch_Idle
    /\ ln_Idle

\* adlist_urls gets one more url, whose text is empty so far
AddBlockSource ==
    /\ cd_pc = "sources"
    /\ Len(sources.adlist) < MaxBlockSources
    /\ sources' = [sources EXCEPT !.adlist = Append(@, <<>>)]
    /\ UNCHANGED <<cd_vars, store_vars, local_vars, hist_vars, rs_vars, ch_vars, ln_vars>>

\* whitelist_urls gets one more url, whose text is empty so far
AddAllowSource ==
    /\ cd_pc = "sources"
    /\ Len(sources.whitelist) < MaxAllowSources
    /\ sources' = [sources EXCEPT !.whitelist = Append(@, <<>>)]
    /\ UNCHANGED <<cd_vars, store_vars, local_vars, hist_vars, rs_vars, ch_vars, ln_vars>>

\* a text that is empty or ends with a line terminator
AtLineStart(t) == IF t = <<>> THEN TRUE ELSE t[Len(t)] = "\n"

\* the text behind a url gets one more line, not yet terminated
AppendSourceLine ==
    /\ cd_pc = "sources"
    /\ \E kind \in {"adlist", "whitelist"} :
          \E k \in 1..Len(sources[kind]) :
              /\ AtLineStart(sources[kind][k])
              /\ CountLF(sources[kind][k]) < MaxSourceLines
              /\ \E l \in JoinLinePool :
                    sources' = [sources EXCEPT ![kind][k] = @ \o l]
    /\ UNCHANGED <<cd_vars, store_vars, local_vars, hist_vars, rs_vars, ch_vars, ln_vars>>

\* the last line of the text behind a url gets its terminator
TerminateSourceLine ==
    /\ cd_pc = "sources"
    /\ \E kind \in {"adlist", "whitelist"} :
          \E k \in 1..Len(sources[kind]) :
              /\ ~AtLineStart(sources[kind][k])
              /\ sources' = [sources EXCEPT ![kind][k] = @ \o <<"\n">>]
    /\ UNCHANGED <<cd_vars, store_vars, local_vars, hist_vars, rs_vars, ch_vars, ln_vars>>

\* lines 17-24: the texts are downloaded and joined by kind
JoinSources ==
    /\ cd_pc = "sources"
    /\ block_content' = BlockContent(sources)
    /\ white_content' = WhiteContent(sources)
    /\ cd_pc' = "input"
    /\ UNCHANGED <<final_domains, run_vars, rs_vars, ch_vars, ln_vars>>

NextJoin ==
    \/ AddBlockSource
    \/ AddAllowSource
    \/ AppendSourceLine
    \/ TerminateSourceLine
    \/ JoinSources
    \/ ConvertToDomainList

SpecJoin == InitJoin /\ [][NextJoin]_vars

----------------------------------------------------------------------------
(* Properties of remove_subdomains *)

\* b is a, with one or more leading labels dropped
StrictAncestor(b, a) ==
    /\ Len(b) < Len(a)
    /\ a[Len(a) - Len(b)] = "."
    /\ SubSeq(a, Len(a) - Len(b) + 1, Len(a)) = b

\* C2: the output of remove_subdomains holds no two domains one of which is
\* a strict dot-boundary suffix of the other, single-label ancestors included.
C2_NoOutputCoversAnother ==
    rs_pc = "output" =>
        \A a \in rs_result : \A b \in rs_result : ~StrictAncestor(b, a)

\* C3: the output is a subset of the input, and every input domain is in the
\* output or has a strict ancestor in the output.
C3_CoverageKept ==
    rs_pc = "output" =>
        /\ rs_result \subseteq rs_domains
        /\ \A d \in rs_domains :
              d \in rs_result \/ \E b \in rs_result : StrictAncestor(b, d)

\* C3 witness: a chain of three nested multi-label domains went in, the two
\* inner ones were removed and only their common ancestor came out.
C3_Witness ==
    /\ rs_pc = "output"
    /\ \E x \in rs_domains : \E y \in rs_domains : \E z \in rs_domains :
          /\ StrictAncestor(y, x)
          /\ StrictAncestor(z, y)
          /\ Len(Split(z, ".")) > 1
          /\ x \notin rs_result
          /\ y \notin rs_result
          /\ z \in rs_result

----------------------------------------------------------------------------
(* Properties of convert_to_domain_list *)

\* C4: the returned list holds exactly the domains of remove_subdomains(block
\* set) that are not in the allow set, in strictly ascending code-point order
\* (hence each once, and one sequence only for a given pair of texts).
C4_FinalIsSortedDifference ==
    cd_pc = "output" =>
        /\ Range(final_domains) =
              {d \in remove_subdomains(DomainsOf(block_content)) :
                  d \notin DomainsOf(white_content)}
        /\ \A i \in 1..(Len(final_domains) - 1) :
              StrLess(final_domains[i], final_domains[i + 1])

\* C4 witness: a domain of the reduced block set is allow-listed and left
\* out, and two others are returned in order.
C4_Witness ==
    /\ cd_pc = "output"
    /\ Len(final_domains) >= 2
    /\ \E d \in remove_subdomains(DomainsOf(block_content)) :
          d \in DomainsOf(white_content) /\ d \notin Range(final_domains)

----------------------------------------------------------------------------
(* Properties of run *)

\* items held by a set of remote lists
RECURSIVE TotalCount(_)
TotalCount(S) ==
    IF S = {} THEN 0
    ELSE LET l == CHOOSE x \in S : TRUE IN Len(l.items) + TotalCount(S \ {l})

\* contents of the remote lists, concatenated in the order of their names
\* (of their identifiers where two lists bear the same name)
RECURSIVE ConcatLists(_)
ConcatLists(S) ==
    IF S = {} THEN <<>>
    ELSE LET l == CHOOSE x \in S :
                    \A y \in S : x.idx < y.idx \/ (x.idx = y.idx /\ x.id <= y.id)
         IN  l.items \o ConcatLists(S \ {l})

StoreUnchanged(p) ==
    store_lists = snap[p].lists /\ store_policies = snap[p].policies

\* exactly one policy, named as run() names it, referencing exactly the remote lists
OnePolicyForLists ==
    \E q \in store_policies :
        /\ store_policies = {q}
        /\ q.name = PolicyName
        /\ q.lists = {l.id : l \in store_lists}

\* ceil(n / ChunkSize)
NumChunks(n) == (n + ChunkSize - 1) \div ChunkSize

\* C1 as stated: after a run() that ends without abort and without error the
\* concatenated contents of the remote lists equal the final domain list,
\* whatever the remote lists held before.
C1_StoreEqualsFinal ==
    pc[1] = "done" => ConcatLists(store_lists) = domains[1]

\* C1 amended: after such a run() the item counts of the remote lists sum to
\* len(final); the contents equal the final list when the run found a
\* different total and rebuilt; when it found the same total the lists are
\* left exactly as they were found.
C1_CountsEqualAndRebuildEqualsFinal ==
    pc[1] = "done" =>
        /\ TotalCount(store_lists) = Len(domains[1])
        /\ TotalCount(snap[1].lists) # Len(domains[1]) =>
              ConcatLists(store_lists) = domains[1]
        /\ TotalCount(snap[1].lists) = Len(domains[1]) =>
              store_lists = snap[1].lists

\* C1 witness: a rebuild over old lists ended with two new lists
C1_Witness ==
    /\ pc[1] = "done"
    /\ snap[1].lists # {}
    /\ TotalCount(snap[1].lists) # Len(domains[1])
    /\ Cardinality(store_lists) = 2
    /\ ConcatLists(store_lists) = domains[1]

\* C5: a run() whose final list is empty or longer than the limit ends
\* without any mutating remote call and leaves the store as it was; it never
\* goes on to the store; a list of exactly the limit is not turned away.
C5_AbortMutatesNothing ==
    /\ pc[1] = "aborted" =>
          /\ Len(domains[1]) = 0 \/ Len(domains[1]) > DomainLimit
          /\ calls[1] = <<>>
          /\ StoreUnchanged(1)
    /\ pc[1] \in CallPcs \cup {"done"} => Len(domains[1]) \in 1..DomainLimit
    /\ Len(domains[1]) = DomainLimit => pc[1] # "aborted"

\* C5 witness: a list over the limit was turned away while the store held
\* lists and policies
C5_Witness ==
    /\ pc[1] = "aborted"
    /\ Len(domains[1]) > DomainLimit
    /\ store_lists # {}
    /\ store_policies # {}

\* C6 as stated: when run() finds two or more policies in the namespace it
\* ends with the "multiple policies" error and has issued no mutating call.
C6_TwoPoliciesFatalNoMutation ==
    Len(cf_policies[1]) >= 2 =>
        pc[1] = "error" /\ err[1] = "multiple" /\ calls[1] = <<>>

\* C7: counts equal to len(final) and no policy: the one mutating call is the
\* creation of the policy, referencing exactly the lists found; lists untouched.
C7_CreatePolicyOnly ==
    (/\ pc[1] = "done"
     /\ TotalCount(snap[1].lists) = Len(domains[1])
     /\ snap[1].policies = {}) =>
        /\ calls[1] = << [op |-> "create_policy", name |-> PolicyName,
                         lists |-> {l.id : l \in snap[1].lists}] >>
        /\ store_lists = snap[1].lists
        /\ OnePolicyForLists

\* C7 witness: the policy was created over two lists found in place
C7_Witness ==
    /\ pc[1] = "done"
    /\ decision[1] = "CreatePolicyOnly"
    /\ Cardinality(snap[1].lists) = 2
    /\ snap[1].policies = {}

\* C8: counts equal to len(final) and a policy in place: Skip, no mutating
\* call, lists and policies unchanged.
C8_SkipChangesNothing ==
    (/\ pc[1] = "done"
     /\ TotalCount(snap[1].lists) = Len(domains[1])
     /\ snap[1].policies # {}) =>
        /\ decision[1] = "Skip"
        /\ calls[1] = <<>>
        /\ StoreUnchanged(1)

\* C8 witness: a Skip over lists whose content is not the final list
C8_Witness ==
    /\ pc[1] = "done"
    /\ decision[1] = "Skip"
    /\ snap[1].policies # {}
    /\ ConcatLists(store_lists) # domains[1]

\* C9: counts different from len(final): a completed rebuild leaves none of
\* the lists found, ceil(len(final)/ChunkSize) lists named 1..k holding the
\* consecutive slices of the final list, and one policy referencing them.
C9_RebuildResult ==
    (pc[1] = "done" /\ TotalCount(snap[1].lists) # Len(domains[1])) =>
        LET n == Len(domains[1])
            k == NumChunks(n)
        IN  /\ {l.id : l \in store_lists} \cap {l.id : l \in snap[1].lists} = {}
            /\ Cardinality(store_lists) = k
            /\ \A i \in 1..k : \E l \in store_lists :
                  /\ l.idx = i
                  /\ l.items = SubSeq(domains[1], (i - 1) * ChunkSize + 1,
                                      Min(i * ChunkSize, n))
            /\ OnePolicyForLists

\* C9 witness: old lists were replaced by two new ones and the policy found
\* in place was updated
C9_Witness ==
    /\ pc[1] = "done"
    /\ snap[1].lists # {}
    /\ Cardinality(store_lists) = 2
    /\ calls[1] # <<>>
    /\ calls[1][Len(calls[1])].op = "update_policy"

\* every policy of the namespace bears the name run() gives its policy
OwnPoliciesOnly(S) == \A q \in S : q.name = PolicyName

\* C10 as stated, for a run() interrupted after at least one mutating call in
\* a namespace that holds no policy but the engine's own: the next run() that
\* completes leaves lists holding exactly the final list and one policy
\* referencing exactly those lists.
C10_RerunConverges ==
    (failed_before /\ pc[1] = "done" /\ OwnPoliciesOnly(snap[1].policies)) =>
        ConcatLists(store_lists) = domains[1] /\ OnePolicyForLists


----------------------------------------------------------------------------
(* chunk_list *)

\* C11: the slices chunk_list yields are non-empty, all but the last hold
\* exactly n elements, the last holds 1..n, they concatenate to the list in
\* order, and there are ceil(len / n) of them (none for the empty list).
C11_ChunksPartitionList ==
    ch_pc = "output" =>
        LET k == Len(ch_result) IN
        /\ Concat(ch_result) = ch_list
        /\ \A i \in 1..k : ch_result[i] # <<>>
        /\ \A i \in 1..(k - 1) : Len(ch_result[i]) = ch_n
        /\ k > 0 => Len(ch_result[k]) \in 1..ch_n
        /\ k = (Len(ch_list) + ch_n - 1) \div ch_n
        /\ ch_list = <<>> => k = 0

\* a list of several slices whose last slice is shorter than n
C11_Witness ==
    /\ ch_pc = "output"
    /\ Len(ch_result) >= 2
    /\ Len(ch_result[Len(ch_result)]) < ch_n


----------------------------------------------------------------------------
(* delete *)

\* C12: delete() issues only deletions, the policy deletion first and before
\* the lists are fetched; when every call succeeds no list of the namespace
\* and no policy named "<namespace> Block Ads" is left, and nothing was created.
C12_DeleteEmptiesNamespace ==
    /\ \A i \in 1..Len(calls[1]) : calls[1][i].op \in {"delete_policy", "delete_list"}
    /\ \A i \in 1..Len(calls[1]) : calls[1][i].op = "delete_policy" <=> i = 1
    /\ pc[1] = "dl_del_policy" => cf_lists[1] = <<>> /\ calls[1] = <<>>
    /\ pc[1] = "dl_get_lists" => cf_lists[1] = <<>> /\ Len(calls[1]) = 1
    /\ pc[1] \in {"dl_del_lists", "done"} => Len(calls[1]) >= 1
    /\ pc[1] # "idle" => store_lists \subseteq snap[1].lists
    /\ pc[1] # "idle" => store_policies \subseteq snap[1].policies
    /\ pc[1] = "done" =>
          /\ store_lists = {}
          /\ \A q \in store_policies : q.name # PolicyName

\* a delete() that removed a policy and two lists
C12_Witness ==
    /\ pc[1] = "done"
    /\ Cardinality(snap[1].lists) = 2
    /\ \E q \in snap[1].policies : q.name = PolicyName
    /\ Len(calls[1]) = 3


----------------------------------------------------------------------------
(* convert_domains *)

\* an empty label before the last one: what the IDNA codec refuses
HasEmptyLabel(d) ==
    \E i \in 1..Len(d) : d[i] = "." /\ (i = 1 \/ d[i - 1] = ".")

\* C13: convert_domains returns None for the empty line and for a line that
\* starts with "#", "!" or "/"; it raises for no line, and a name the IDNA
\* codec refuses is never returned.
C13_CommentsRejectedNeverRaises ==
    ln_pc = "output" =>
        /\ ln_result # Raised
        /\ (ln_line = <<>> \/ ln_line[1] \in {"#", "!", "/"}) => ln_result = None
        /\ ln_result # None => ~HasEmptyLabel(ln_result)

\* a line that is no comment and whose name the IDNA codec refuses
C13_Witness ==
    /\ ln_pc = "output"
    /\ ln_line = <<"a", ".", ".", "a">>
    /\ ln_result = None


----------------------------------------------------------------------------
(* Order of the remote calls of a rebuild *)

\* positions of the calls of one kind in the log of the current execution
CallsOf(ops) == {i \in 1..Len(calls[1]) : calls[1][i].op \in ops}

\* C14: on the rebuild path the policy deletion precedes the list deletions,
\* every list found has been deleted before the first list creation, no
\* deletion follows a creation, and every chunk has been created before the
\* policies are fetched again and the policy is created or updated.
C14_RebuildPhasesInOrder ==
    LET dels == CallsOf({"delete_policy", "delete_list"})
        listDels == CallsOf({"delete_list"})
        creates == CallsOf({"create_list"})
        writes == CallsOf({"create_policy", "update_policy"})
        rebuild == CallsOf({"delete_policy"}) # {}
    IN  /\ \A i \in listDels : \E j \in 1..(i - 1) : calls[1][j].op = "delete_policy"
        /\ \A i \in creates :
              /\ \E j \in 1..(i - 1) : calls[1][j].op = "delete_policy"
              /\ \A l \in snap[1].lists :
                    \E j \in 1..(i - 1) :
                        calls[1][j].op = "delete_list" /\ calls[1][j].id = l.id
        /\ \A i \in creates : \A j \in dels : j < i
        /\ pc[1] = "create_lists" => snap[1].lists \cap store_lists = {}
        /\ pc[1] \in {"rb_get_policies", "rb_create_policy", "rb_update_policy"} =>
              Cardinality(creates) = NumChunks(Len(domains[1]))
        /\ rebuild =>
              \A i \in writes :
                  /\ Cardinality(creates) = NumChunks(Len(domains[1]))
                  /\ \A j \in creates \cup dels : j < i

\* a rebuild that deleted the policy and two lists, then created a list and
\* wrote the policy
C14_Witness ==
    /\ pc[1] = "done"
    /\ decision[1] = "Rebuild"
    /\ Cardinality(CallsOf({"delete_list"})) = 2
    /\ CallsOf({"create_list"}) # {}
    /\ CallsOf({"create_policy", "update_policy"}) # {}


----------------------------------------------------------------------------
(* Failure of a remote call *)

\* C15: a remote call that fails ends the execution with an error at once,
\* and an execution that ended with an error issues nothing more: the failed
\* call is not issued again, and no call of a later step follows.
C15_FailureEndsExecution ==
    [][/\ err'[1] = "io" => pc'[1] = "error"
       /\ (pc[1] = "error" /\ runs' = runs) =>
             /\ pc'[1] = "error"
             /\ calls' = calls
             /\ UNCHANGED store_vars]_vars

\* an execution that failed while deleting lists: a list it found is still
\* there and nothing was created
C15_Witness ==
    /\ pc[1] = "error"
    /\ err[1] = "io"
    /\ CallsOf({"delete_list"}) # {}
    /\ CallsOf({"create_list", "create_policy", "update_policy"}) = {}
    /\ snap[1].lists \cap store_lists # {}


----------------------------------------------------------------------------
(* Repeated executions *)

\* C16: the execution that follows one that completed on CreatePolicyOnly,
\* Rebuild or Skip, with the same sources and no other writer, goes no
\* further than the two fetches, issues no mutating call, leaves the store
\* as it found it and, when it completes, has taken Skip.
C16_RerunSkips ==
    prev_decision \in {"CreatePolicyOnly", "Rebuild", "Skip"} =>
        /\ pc[1] \in {"get_lists", "sm_get_policies", "done", "error"}
        /\ calls[1] = <<>>
        /\ StoreUnchanged(1)
        /\ pc[1] = "done" => decision[1] = "Skip"

\* a completed execution right after a rebuild
C16_Witness ==
    /\ prev_decision = "Rebuild"
    /\ pc[1] = "done"
    /\ decision[1] = "Skip"
    /\ Cardinality(store_lists) = 2


----------------------------------------------------------------------------
(* Sources joined *)

\* the names convert_domains keeps over the lines of each text of a list
DomainsOfEach(texts) == UNION {DomainsOf(texts[k]) : k \in 1..Len(texts)}

\* C17: the block set read from the joined block text is the set of names
\* kept over the lines of each block source taken by itself, and the allow
\* set likewise: no line of one source is merged with a line of the next.
C17_SourcesReadLineByLine ==
    cd_pc \in {"input", "output"} =>
        /\ DomainsOf(block_content) = DomainsOfEach(sources.adlist)
        /\ DomainsOf(white_content) = DomainsOfEach(sources.whitelist)


----------------------------------------------------------------------------
(* Coverage after the allow set is subtracted *)

\* C18: every name of the block set that is not in the allow set is in the
\* final list or has a strict ancestor in the final list.
C18_BlockCoverageKept ==
    cd_pc = "output" =>
        \A d \in DomainsOf(block_content) \ DomainsOf(white_content) :
            \/ d \in Range(final_domains)
            \/ \E a \in Range(final_domains) : StrictAncestor(a, d)


----------------------------------------------------------------------------
(* Two executions at once *)

\* C19: when two executions of run() on the same sources, each begun in a
\* namespace holding at most one policy, the engine's own, have both
\* completed, the namespace holds at most one policy and the counts of its
\* lists sum to the length of the final list.
C19_ConcurrentRunsConverge ==
    (/\ pc[1] = "done"
     /\ pc[2] = "done"
     /\ \A p \in Procs :
           OwnPoliciesOnly(snap[p].policies) /\ Cardinality(snap[p].policies) <= 1) =>
        /\ Cardinality(store_policies) <= 1
        /\ TotalCount(store_lists) = Len(domains[1])


----------------------------------------------------------------------------
(* Lists a policy refers to *)

\* C20: every create_gateway_policy and update_gateway_policy call of run()
\* passes at least one list identifier.
C20_PolicyNeverWithoutLists ==
    \A i \in CallsOf({"create_policy", "update_policy"}) : calls[1][i].lists # {}

\* a policy created over the lists found, and nothing else done
C20_Witness ==
    /\ pc[1] = "done"
    /\ decision[1] = "CreatePolicyOnly"
    /\ Len(calls[1]) = 1
    /\ calls[1][1].op = "create_policy"
    /\ calls[1][1].lists = {l.id : l \in store_lists}
    /\ store_lists # {}

=============================================================================
